---- MODULE Spec2Model ----
(***************************************************************************)
(* ST7789V LCD driver of the tuya_lvgl_demo (driver/tuya_lcd.c) and the    *)
(* application that drives it (tuya_app_main.c).  Every call of the        *)
(* platform (tuya_gpio_config, tuya_gpio_write, tuya_spi_init,             *)
(* tuya_spi_write), of lcd_delay_ms and of lv_disp_flush_ready is one step *)
(* of the machine; `trace` is the bus recorder of the call in progress.    *)
(***************************************************************************)
EXTENDS Integers, Sequences, FiniteSets, TLC

\* ---------------------------------------------------------------- constants
LCD_CMD == 0
LCD_DATA == 1

ST7789_SWRESET == \h01
ST7789_SLPOUT == \h11
ST7789_NORON == \h13
ST7789_MADCTL == \h36
ST7789_COLMOD == \h3A
ST7789_PORCTRL == \hB2
ST7789_GCTRL == \hB7
ST7789_VCOMS == \hBB
ST7789_LCMCTRL == \hC0
ST7789_VDVVRHEN == \hC2
ST7789_VRHS == \hC3
ST7789_VDVS == \hC4
ST7789_FRCTRL2 == \hC6
ST7789_PWCTRL1 == \hD0
ST7789_PVGAMCTRL == \hE0
ST7789_NVGAMCTRL == \hE1
ST7789_DISPON == \h29
ST7789_CASET == \h2A
ST7789_RASET == \h2B
ST7789_RAMWR == \h2C

LCD_WIDTH == 240
LCD_HEIGHT == 320

P8 == 8
P9 == 9
P10 == 10
P11 == 11
LCD_CS_PIN == P8
LCD_DC_PIN == P9
LCD_RST_PIN == P10
LCD_BL_PIN == P11
Pins == {LCD_CS_PIN, LCD_DC_PIN, LCD_RST_PIN, LCD_BL_PIN}

TUYA_GPIO_OUTPUT == 1

\* ------------------------------------------------------------------- inputs
\* Areas the graphics collaborator passes to lcd_flush (lv_area_t, int16_t
\* fields): inside the panel, on its edges, one past them, negative, and with
\* the corners swapped.
Areas == [x1 : {-1, 0, 5}, y1 : {0, 9}, x2 : {0, 239, 240}, y2 : {0, 9, 319, 320}]

\* Contents the graphics collaborator renders into the draw buffer before a
\* flush, as the two pixel values that alternate in it: all black, and the
\* alternating 0xF800 / 0x0000 of the specification's example.
Patterns == { << 0, 0 >>, << \hF800, 0 >> }

\* tuya_app_main.c: the draw buffer holds DISP_BUF_SIZE pixels.
DISP_BUF_SIZE == LCD_WIDTH * 10

\* ------------------------------------------------------- C integer conversions
U8(v) == v % 256
U16(v) == v % 65536
\* A uint32_t value as its two 16-bit halves (TLC's integers are 32-bit
\* signed); v is an int.
U32(v) == [hi |-> (v \div 65536) % 65536, lo |-> v % 65536]
\* w * 2 in uint32_t arithmetic.
U32Times2(w) ==
    [hi |-> (2 * w.hi + (2 * w.lo) \div 65536) % 65536, lo |-> (2 * w.lo) % 65536]
\* Conversion of a uint32_t to uint16_t.
U32ToU16(w) == w.lo

\* ------------------------------------------------------------ platform calls
\* One record per call of the platform or of a collaborator; `buf` names the
\* pointer argument of a transport write and `val` the byte it points at
\* (0 for the pixel buffer, whose contents the driver never inspects).
tuya_gpio_config(pin, mode) ==
    [op |-> "gpio_config", pin |-> pin, val |-> mode, buf |-> "-", len |-> 0]

tuya_gpio_write(pin, value) ==
    [op |-> "gpio_write", pin |-> pin, val |-> U8(value), buf |-> "-", len |-> 0]

tuya_spi_init ==
    [op |-> "spi_init", pin |-> 0, val |-> 0, buf |-> "-", len |-> 0]

tuya_spi_write(buf, byte, len) ==
    [op |-> "spi_write", pin |-> 0, val |-> byte, buf |-> buf, len |-> U16(len)]

lcd_delay_ms(ms) ==
    [op |-> "delay", pin |-> 0, val |-> ms, buf |-> "-", len |-> 0]

lv_disp_flush_ready ==
    [op |-> "flush_ready", pin |-> 0, val |-> 0, buf |-> "-", len |-> 0]

\* The statements of function fn, in order: statement k is call k of its body.
Body(fn, calls) ==
    [k \in 1..Len(calls) |-> [fn |-> fn, k |-> k] @@ calls[k]]

\* ----------------------------------------------------------------- Bus Framer
\* lcd_write_cmd that selects the LCD before it sets command/data-select.
lcd_write_cmd_select_first(cmd) ==
    Body("lcd_write_cmd",
         << tuya_gpio_write(LCD_CS_PIN, 0),
            tuya_gpio_write(LCD_DC_PIN, 0),
            tuya_spi_write("cmd", U8(cmd), 1),
            tuya_gpio_write(LCD_CS_PIN, 1) >>)

lcd_write_cmd(cmd) ==
    Body("lcd_write_cmd",
         << tuya_gpio_write(LCD_DC_PIN, 0),
            tuya_gpio_write(LCD_CS_PIN, 0),
            tuya_spi_write("cmd", U8(cmd), 1),
            tuya_gpio_write(LCD_CS_PIN, 1) >>)

\* lcd_write_data that leaves the LCD selected.
lcd_write_data_no_deselect(data) ==
    Body("lcd_write_data",
         << tuya_gpio_write(LCD_DC_PIN, 1),
            tuya_gpio_write(LCD_CS_PIN, 0),
            tuya_spi_write("data", U8(data), 1) >>)

lcd_write_data(data) ==
    Body("lcd_write_data",
         << tuya_gpio_write(LCD_DC_PIN, 1),
            tuya_gpio_write(LCD_CS_PIN, 0),
            tuya_spi_write("data", U8(data), 1),
            tuya_gpio_write(LCD_CS_PIN, 1) >>)

\* lcd_write_data_buf that starts the transfer one byte into the buffer.
lcd_write_data_buf_skip_first(buf, len) ==
    Body("lcd_write_data_buf",
         << tuya_gpio_write(LCD_DC_PIN, 1),
            tuya_gpio_write(LCD_CS_PIN, 0),
            tuya_spi_write("buf+1", 0, U16(len)),
            tuya_gpio_write(LCD_CS_PIN, 1) >>)

lcd_write_data_buf(buf, len) ==
    Body("lcd_write_data_buf",
         << tuya_gpio_write(LCD_DC_PIN, 1),
            tuya_gpio_write(LCD_CS_PIN, 0),
            tuya_spi_write(buf, 0, U16(len)),
            tuya_gpio_write(LCD_CS_PIN, 1) >>)

\* ---------------------------------------------------------- Controller Driver
\* lcd_set_address_window with the two bytes of the end row sent low byte first.
lcd_set_address_window_little_endian(x0, y0, x1, y1) ==
       lcd_write_cmd(ST7789_CASET)
    \o lcd_write_data(U16(x0) \div 256)
    \o lcd_write_data(U16(x0) % 256)
    \o lcd_write_data(U16(x1) \div 256)
    \o lcd_write_data(U16(x1) % 256)
    \o lcd_write_cmd(ST7789_RASET)
    \o lcd_write_data(U16(y0) \div 256)
    \o lcd_write_data(U16(y0) % 256)
    \o lcd_write_data(U16(y1) % 256)
    \o lcd_write_data(U16(y1) \div 256)
    \o lcd_write_cmd(ST7789_RAMWR)

lcd_set_address_window(x0, y0, x1, y1) ==
       lcd_write_cmd(ST7789_CASET)
    \o lcd_write_data(U16(x0) \div 256)
    \o lcd_write_data(U16(x0) % 256)
    \o lcd_write_data(U16(x1) \div 256)
    \o lcd_write_data(U16(x1) % 256)
    \o lcd_write_cmd(ST7789_RASET)
    \o lcd_write_data(U16(y0) \div 256)
    \o lcd_write_data(U16(y0) % 256)
    \o lcd_write_data(U16(y1) \div 256)
    \o lcd_write_data(U16(y1) % 256)
    \o lcd_write_cmd(ST7789_RAMWR)

\* lcd_write_data applied to each byte of a parameter list, in order.
RECURSIVE lcd_write_params(_)
lcd_write_params(bytes) ==
    IF bytes = << >> THEN << >>
    ELSE lcd_write_data(Head(bytes)) \o lcd_write_params(Tail(bytes))

\* lcd_init_hw that switches the backlight on before the reset pulse.
lcd_init_hw_backlight_first ==
       Body("lcd_init", << tuya_gpio_config(LCD_CS_PIN, TUYA_GPIO_OUTPUT) >>)
    \o Body("lcd_init", << tuya_gpio_config(LCD_DC_PIN, TUYA_GPIO_OUTPUT) >>)
    \o Body("lcd_init", << tuya_gpio_config(LCD_RST_PIN, TUYA_GPIO_OUTPUT) >>)
    \o Body("lcd_init", << tuya_gpio_config(LCD_BL_PIN, TUYA_GPIO_OUTPUT) >>)
    \o Body("lcd_init", << tuya_spi_init >>)
    \o Body("lcd_init", << tuya_gpio_write(LCD_BL_PIN, 1) >>)
    \o Body("lcd_init", << tuya_gpio_write(LCD_RST_PIN, 0) >>)
    \o Body("lcd_init", << lcd_delay_ms(10) >>)
    \o Body("lcd_init", << tuya_gpio_write(LCD_RST_PIN, 1) >>)
    \o Body("lcd_init", << lcd_delay_ms(120) >>)

\* lcd_init_hw that initialises the transport after the reset pulse.
lcd_init_hw_spi_late ==
       Body("lcd_init", << tuya_gpio_config(LCD_CS_PIN, TUYA_GPIO_OUTPUT) >>)
    \o Body("lcd_init", << tuya_gpio_config(LCD_DC_PIN, TUYA_GPIO_OUTPUT) >>)
    \o Body("lcd_init", << tuya_gpio_config(LCD_RST_PIN, TUYA_GPIO_OUTPUT) >>)
    \o Body("lcd_init", << tuya_gpio_config(LCD_BL_PIN, TUYA_GPIO_OUTPUT) >>)
    \o Body("lcd_init", << tuya_gpio_write(LCD_RST_PIN, 0) >>)
    \o Body("lcd_init", << lcd_delay_ms(10) >>)
    \o Body("lcd_init", << tuya_gpio_write(LCD_RST_PIN, 1) >>)
    \o Body("lcd_init", << lcd_delay_ms(120) >>)
    \o Body("lcd_init", << tuya_spi_init >>)
    \o Body("lcd_init", << tuya_gpio_write(LCD_BL_PIN, 1) >>)

\* lcd_init, lines 135-151: pin configuration, transport, hardware reset,
\* backlight.
lcd_init_hw ==
       Body("lcd_init", << tuya_gpio_config(LCD_CS_PIN, TUYA_GPIO_OUTPUT) >>)
    \o Body("lcd_init", << tuya_gpio_config(LCD_DC_PIN, TUYA_GPIO_OUTPUT) >>)
    \o Body("lcd_init", << tuya_gpio_config(LCD_RST_PIN, TUYA_GPIO_OUTPUT) >>)
    \o Body("lcd_init", << tuya_gpio_config(LCD_BL_PIN, TUYA_GPIO_OUTPUT) >>)
    \o Body("lcd_init", << tuya_spi_init >>)
    \o Body("lcd_init", << tuya_gpio_write(LCD_RST_PIN, 0) >>)
    \o Body("lcd_init", << lcd_delay_ms(10) >>)
    \o Body("lcd_init", << tuya_gpio_write(LCD_RST_PIN, 1) >>)
    \o Body("lcd_init", << lcd_delay_ms(120) >>)
    \o Body("lcd_init", << tuya_gpio_write(LCD_BL_PIN, 1) >>)

\* lcd_init_wake with the wait after the software reset cut to 15 ms.
lcd_init_wake_short_delay ==
       lcd_write_cmd(ST7789_SWRESET)
    \o Body("lcd_init", << lcd_delay_ms(15) >>)
    \o lcd_write_cmd(ST7789_SLPOUT)
    \o Body("lcd_init", << lcd_delay_ms(10) >>)

\* lcd_init, lines 153-158: software reset and sleep out.
lcd_init_wake ==
       lcd_write_cmd(ST7789_SWRESET)
    \o Body("lcd_init", << lcd_delay_ms(150) >>)
    \o lcd_write_cmd(ST7789_SLPOUT)
    \o Body("lcd_init", << lcd_delay_ms(10) >>)

\* lcd_init_format whose address defaults end one past the last column and row.
lcd_init_format_one_past ==
       lcd_write_cmd(ST7789_COLMOD)
    \o lcd_write_params(<< \h55 >>)
    \o lcd_write_cmd(ST7789_MADCTL)
    \o lcd_write_params(<< \h00 >>)
    \o lcd_write_cmd(ST7789_CASET)
    \o lcd_write_params(<< \h00, \h00, \h00, \hF0 >>)
    \o lcd_write_cmd(ST7789_RASET)
    \o lcd_write_params(<< \h00, \h00, \h01, \h40 >>)

\* lcd_init, lines 160-176: pixel format, orientation, default window.
lcd_init_format ==
       lcd_write_cmd(ST7789_COLMOD)
    \o lcd_write_params(<< \h55 >>)
    \o lcd_write_cmd(ST7789_MADCTL)
    \o lcd_write_params(<< \h00 >>)
    \o lcd_write_cmd(ST7789_CASET)
    \o lcd_write_params(<< \h00, \h00, \h00, \hEF >>)
    \o lcd_write_cmd(ST7789_RASET)
    \o lcd_write_params(<< \h00, \h00, \h01, \h3F >>)

\* lcd_init_power with VRHS and VDVS programmed before VDVVRHEN enables them.
lcd_init_power_enable_late ==
       lcd_write_cmd(ST7789_PORCTRL)
    \o lcd_write_params(<< \h0C, \h0C, \h00, \h33, \h33 >>)
    \o lcd_write_cmd(ST7789_GCTRL)
    \o lcd_write_params(<< \h35 >>)
    \o lcd_write_cmd(ST7789_VCOMS)
    \o lcd_write_params(<< \h19 >>)
    \o lcd_write_cmd(ST7789_LCMCTRL)
    \o lcd_write_params(<< \h2C >>)
    \o lcd_write_cmd(ST7789_VRHS)
    \o lcd_write_params(<< \h12 >>)
    \o lcd_write_cmd(ST7789_VDVS)
    \o lcd_write_params(<< \h20 >>)
    \o lcd_write_cmd(ST7789_VDVVRHEN)
    \o lcd_write_params(<< \h01 >>)
    \o lcd_write_cmd(ST7789_FRCTRL2)
    \o lcd_write_params(<< \h0F >>)
    \o lcd_write_cmd(ST7789_PWCTRL1)
    \o lcd_write_params(<< \hA4, \hA1 >>)

\* lcd_init, lines 178-208: porch, gate, voltage and frame-rate settings.
lcd_init_power ==
       lcd_write_cmd(ST7789_PORCTRL)
    \o lcd_write_params(<< \h0C, \h0C, \h00, \h33, \h33 >>)
    \o lcd_write_cmd(ST7789_GCTRL)
    \o lcd_write_params(<< \h35 >>)
    \o lcd_write_cmd(ST7789_VCOMS)
    \o lcd_write_params(<< \h19 >>)
    \o lcd_write_cmd(ST7789_LCMCTRL)
    \o lcd_write_params(<< \h2C >>)
    \o lcd_write_cmd(ST7789_VDVVRHEN)
    \o lcd_write_params(<< \h01 >>)
    \o lcd_write_cmd(ST7789_VRHS)
    \o lcd_write_params(<< \h12 >>)
    \o lcd_write_cmd(ST7789_VDVS)
    \o lcd_write_params(<< \h20 >>)
    \o lcd_write_cmd(ST7789_FRCTRL2)
    \o lcd_write_params(<< \h0F >>)
    \o lcd_write_cmd(ST7789_PWCTRL1)
    \o lcd_write_params(<< \hA4, \hA1 >>)

\* lcd_init_gamma with the last byte of the positive curve left out.
lcd_init_gamma_short ==
       lcd_write_cmd(ST7789_PVGAMCTRL)
    \o lcd_write_params(<< \hD0, \h04, \h0D, \h11, \h13, \h2B, \h3F,
                           \h54, \h4C, \h18, \h0D, \h0B, \h1F >>)
    \o lcd_write_cmd(ST7789_NVGAMCTRL)
    \o lcd_write_params(<< \hD0, \h04, \h0C, \h11, \h13, \h2C, \h3F,
                           \h44, \h51, \h2F, \h1F, \h1F, \h20, \h23 >>)

\* lcd_init, lines 210-242: positive and negative gamma curves.
lcd_init_gamma ==
       lcd_write_cmd(ST7789_PVGAMCTRL)
    \o lcd_write_params(<< \hD0, \h04, \h0D, \h11, \h13, \h2B, \h3F,
                           \h54, \h4C, \h18, \h0D, \h0B, \h1F, \h23 >>)
    \o lcd_write_cmd(ST7789_NVGAMCTRL)
    \o lcd_write_params(<< \hD0, \h04, \h0C, \h11, \h13, \h2C, \h3F,
                           \h44, \h51, \h2F, \h1F, \h1F, \h20, \h23 >>)

\* lcd_init, lines 244-248: normal display mode on, display on.
lcd_init_on ==
       lcd_write_cmd(ST7789_NORON)
    \o Body("lcd_init", << lcd_delay_ms(10) >>)
    \o lcd_write_cmd(ST7789_DISPON)
    \o Body("lcd_init", << lcd_delay_ms(100) >>)

lcd_init ==
    lcd_init_hw \o lcd_init_wake \o lcd_init_format \o lcd_init_power
                \o lcd_init_gamma \o lcd_init_on

\* uint32_t size = (x2 - x1 + 1) * (y2 - y1 + 1): the product is computed in
\* int and converted to uint32_t.  lcd_flush passes size * 2 (uint32_t) as the
\* uint16_t len of lcd_write_data_buf.
flush_size(a) == U32((a.x2 - a.x1 + 1) * (a.y2 - a.y1 + 1))

\* lcd_flush that releases the buffer before sending it.
lcd_flush_ready_first(a) ==
       lcd_set_address_window(a.x1, a.y1, a.x2, a.y2)
    \o Body("lcd_flush", << lv_disp_flush_ready >>)
    \o lcd_write_data_buf("color_p", U32ToU16(U32Times2(flush_size(a))))

\* lcd_flush that sends the first pixel and the rest of the pixel buffer in
\* two bursts, each in its own chip-select assertion.
lcd_flush_two_bursts(a) ==
       lcd_set_address_window(a.x1, a.y1, a.x2, a.y2)
    \o lcd_write_data_buf("color_p", 2)
    \o lcd_write_data_buf("color_p", U32ToU16(U32Times2(flush_size(a))) - 2)
    \o Body("lcd_flush", << lv_disp_flush_ready >>)

\* lcd_flush that switches the backlight off while it sends the blit.
lcd_flush_backlight_blanked(a) ==
       Body("lcd_flush", << tuya_gpio_write(LCD_BL_PIN, 0) >>)
    \o lcd_set_address_window(a.x1, a.y1, a.x2, a.y2)
    \o lcd_write_data_buf("color_p", U32ToU16(U32Times2(flush_size(a))))
    \o Body("lcd_flush", << tuya_gpio_write(LCD_BL_PIN, 1) >>)
    \o Body("lcd_flush", << lv_disp_flush_ready >>)

\* lcd_flush that passes the number of pixels as the length in bytes.
lcd_flush_length_in_pixels(a) ==
       lcd_set_address_window(a.x1, a.y1, a.x2, a.y2)
    \o lcd_write_data_buf("color_p", U32ToU16(flush_size(a)))
    \o Body("lcd_flush", << lv_disp_flush_ready >>)

lcd_flush(a) ==
       lcd_set_address_window(a.x1, a.y1, a.x2, a.y2)
    \o lcd_write_data_buf("color_p", U32ToU16(U32Times2(flush_size(a))))
    \o Body("lcd_flush", << lv_disp_flush_ready >>)

\* -------------------------------------------------------------------- state
VARIABLES
    pc,        \* position of tuya_app_main
    entry,     \* the driver entry point called last: "none", "lcd_init", "lcd_flush"
    active,    \* that call is in progress
    code,      \* statements the entry point in progress has still to execute
    area,      \* the area argument of the current or the last lcd_flush
    lines,     \* level of each control line
    outputs,   \* pins configured as outputs
    spi_up,    \* tuya_spi_init has been called
    flush_cb,  \* disp_drv.flush_cb
    trace,     \* calls made by the current or the last entry point, in order
    failed,    \* index in trace of its first failed transport write, 0 if none
    ret,       \* what the last entry point returned to its caller
    buf,       \* contents of the application's draw buffer
    color_p,   \* contents color_p pointed at when lcd_flush was called last
    prev,      \* trace of the lcd_flush call of the loop iteration before, kept
               \* while the next call has the same area and buffer contents
    ninit      \* calls of lcd_init made so far

vars == << pc, entry, active, code, area, lines, outputs, spi_up, flush_cb, trace,
           failed, ret, buf, color_p, prev, ninit >>

\* The entry point in progress is at a statement; Stmt is that statement.
AtStmt == active /\ code # << >>
Stmt == Head(code)

\* The recorder's entry for statement s: the call and, for a transport write,
\* the level of the two framing lines during it (-1 for the other calls) and,
\* when it reads the pixel buffer, the contents it finds there.
Event(s) ==
    s @@ [dc |-> IF s.op = "spi_write" THEN lines[LCD_DC_PIN] ELSE -1,
          cs |-> IF s.op = "spi_write" THEN lines[LCD_CS_PIN] ELSE -1,
          mem |-> IF s.op = "spi_write" /\ s.buf = "color_p" THEN buf ELSE << >>]

Init ==
    /\ pc = "lcd_init"
    /\ entry = "none"
    /\ active = FALSE
    /\ code = << >>
    /\ area = [x1 |-> 0, y1 |-> 0, x2 |-> 0, y2 |-> 0]
    /\ lines \in [Pins -> {0, 1}]
    /\ outputs = {}
    /\ spi_up = FALSE
    /\ flush_cb = "NULL"
    /\ trace = << >>
    /\ failed = 0
    /\ ret = "none"
    /\ buf = << 0, 0 >>
    /\ color_p = << 0, 0 >>
    /\ prev = << >>
    /\ ninit = 0

\* ------------------------------------------------------------------ actions
\* CallLcdInit that is also taken from the main loop.
CallLcdInit_from_loop ==
    /\ pc \in {"lcd_init", "loop"} /\ ~active
    /\ entry' = "lcd_init"
    /\ active' = TRUE
    /\ code' = lcd_init
    /\ trace' = << >>
    /\ failed' = 0
    /\ ret' = "none"
    /\ ninit' = ninit + 1
    /\ UNCHANGED << pc, area, lines, outputs, spi_up, flush_cb, buf, color_p, prev >>

\* tuya_app_main calls lcd_init.
CallLcdInit ==
    /\ pc = "lcd_init" /\ ~active
    /\ entry' = "lcd_init"
    /\ active' = TRUE
    /\ code' = lcd_init
    /\ trace' = << >>
    /\ failed' = 0
    /\ ret' = "none"
    /\ ninit' = ninit + 1
    /\ UNCHANGED << pc, area, lines, outputs, spi_up, flush_cb, buf, color_p, prev >>

GpioConfig ==
    /\ AtStmt /\ Stmt.op = "gpio_config"
    /\ outputs' = outputs \cup {Stmt.pin}
    /\ trace' = Append(trace, Event(Stmt))
    /\ code' = Tail(code)
    /\ UNCHANGED << pc, entry, active, area, lines, spi_up, flush_cb, failed, ret, buf, color_p, prev, ninit >>

SpiInit ==
    /\ AtStmt /\ Stmt.op = "spi_init"
    /\ spi_up' = TRUE
    /\ trace' = Append(trace, Event(Stmt))
    /\ code' = Tail(code)
    /\ UNCHANGED << pc, entry, active, area, lines, outputs, flush_cb, failed, ret, buf, color_p, prev, ninit >>

GpioWrite ==
    /\ AtStmt /\ Stmt.op = "gpio_write"
    /\ lines' = [lines EXCEPT ![Stmt.pin] = Stmt.val]
    /\ trace' = Append(trace, Event(Stmt))
    /\ code' = Tail(code)
    /\ UNCHANGED << pc, entry, active, area, outputs, spi_up, flush_cb, failed, ret, buf, color_p, prev, ninit >>

\* The transport write completes; its int result is discarded by the framer.
SpiWriteOk ==
    /\ AtStmt /\ Stmt.op = "spi_write"
    /\ trace' = Append(trace, Event(Stmt))
    /\ code' = Tail(code)
    /\ UNCHANGED << pc, entry, active, area, lines, outputs, spi_up, flush_cb, failed, ret, buf, color_p, prev, ninit >>

\* The transport write fails; its int result is discarded by the framer, which
\* goes on to its next statement.
SpiWriteFail ==
    /\ AtStmt /\ Stmt.op = "spi_write"
    /\ failed' = IF failed = 0 THEN Len(trace) + 1 ELSE failed
    /\ trace' = Append(trace, Event(Stmt))
    /\ code' = Tail(code)
    /\ UNCHANGED << pc, entry, active, area, lines, outputs, spi_up, flush_cb, ret, buf, color_p, prev, ninit >>

DelayMs ==
    /\ AtStmt /\ Stmt.op = "delay"
    /\ trace' = Append(trace, Event(Stmt))
    /\ code' = Tail(code)
    /\ UNCHANGED << pc, entry, active, area, lines, outputs, spi_up, flush_cb, failed, ret, buf, color_p, prev, ninit >>

FlushReady ==
    /\ AtStmt /\ Stmt.op = "flush_ready"
    /\ trace' = Append(trace, Event(Stmt))
    /\ code' = Tail(code)
    /\ UNCHANGED << pc, entry, active, area, lines, outputs, spi_up, flush_cb, failed, ret, buf, color_p, prev, ninit >>

\* lcd_init returns (void) to tuya_app_main.
ReturnLcdInit ==
    /\ entry = "lcd_init" /\ active /\ code = << >>
    /\ active' = FALSE
    /\ ret' = "void"
    /\ pc' = "lvgl_init"
    /\ UNCHANGED << entry, code, area, lines, outputs, spi_up, flush_cb, trace, failed, buf, color_p, prev, ninit >>

\* lvgl_init registers lcd_flush as the flush callback.
LvglInit ==
    /\ pc = "lvgl_init" /\ ~active
    /\ flush_cb' = "lcd_flush"
    /\ pc' = "create_main_ui"
    /\ UNCHANGED << entry, active, code, area, lines, outputs, spi_up, trace, failed, ret, buf, color_p, prev, ninit >>

CreateMainUi ==
    /\ pc = "create_main_ui" /\ ~active
    /\ pc' = "loop"
    /\ UNCHANGED << entry, active, code, area, lines, outputs, spi_up, flush_cb, trace, failed, ret, buf, color_p, prev, ninit >>

\* CallLcdFlush for a driver that remembers the window it set last and skips
\* the window-set step when the area is the one of the flush before.
CallLcdFlush_window_cached ==
    /\ pc = "loop" /\ ~active /\ flush_cb = "lcd_flush"
    /\ pc' = "lv_timer_handler"
    /\ \E a \in Areas, p \in Patterns :
          /\ area' = a
          /\ buf' = p
          /\ color_p' = p
          /\ code' = IF a = area /\ prev # << >>
                        THEN SubSeq(lcd_flush(a), 45, Len(lcd_flush(a)))
                        ELSE lcd_flush(a)
          /\ prev' = IF a = area /\ p = color_p THEN prev ELSE << >>
    /\ entry' = "lcd_flush"
    /\ active' = TRUE
    /\ trace' = << >>
    /\ failed' = 0
    /\ ret' = "none"
    /\ UNCHANGED << lines, outputs, spi_up, flush_cb, ninit >>

\* lv_timer_handler renders into the draw buffer and invokes the registered
\* flush callback on an area and that buffer.
CallLcdFlush ==
    /\ pc = "loop" /\ ~active /\ flush_cb = "lcd_flush"
    /\ pc' = "lv_timer_handler"
    /\ \E a \in Areas, p \in Patterns :
          /\ area' = a
          /\ buf' = p
          /\ color_p' = p
          /\ code' = lcd_flush(a)
          /\ prev' = IF a = area /\ p = color_p THEN prev ELSE << >>
    /\ entry' = "lcd_flush"
    /\ active' = TRUE
    /\ trace' = << >>
    /\ failed' = 0
    /\ ret' = "none"
    /\ UNCHANGED << lines, outputs, spi_up, flush_cb, ninit >>

\* lcd_flush returns (void) to lv_timer_handler.
ReturnLcdFlush ==
    /\ entry = "lcd_flush" /\ active /\ code = << >>
    /\ active' = FALSE
    /\ ret' = "void"
    /\ UNCHANGED << pc, entry, code, area, lines, outputs, spi_up, flush_cb, trace, failed, buf, color_p, prev, ninit >>

\* lv_timer_handler returns and the main loop spins before its next iteration;
\* the recorder starts a new page and keeps the flush just made as `prev`.
LoopDelay ==
    /\ pc = "lv_timer_handler" /\ ~active
    /\ pc' = "loop"
    /\ prev' = trace
    /\ trace' = << >>
    /\ entry' = "none"
    /\ failed' = 0
    /\ ret' = "none"
    /\ UNCHANGED << active, code, area, lines, outputs, spi_up, flush_cb, buf, color_p, ninit >>

Next ==
    \/ CallLcdInit
    \/ GpioConfig
    \/ SpiInit
    \/ GpioWrite
    \/ SpiWriteOk
    \/ SpiWriteFail
    \/ DelayMs
    \/ FlushReady
    \/ ReturnLcdInit
    \/ LvglInit
    \/ CreateMainUi
    \/ CallLcdFlush
    \/ ReturnLcdFlush
    \/ LoopDelay

Spec == Init /\ [][Next]_vars

\* ------------------------------------------------------ reading the recorder
\* The transport writes of a trace, in order.
SpiWrites(t) == SelectSeq(t, LAMBDA e : e.op = "spi_write")

\* Each transport write of a trace as <<command/data-select level, byte>>.
Wire(t) == [i \in 1..Len(SpiWrites(t)) |-> << SpiWrites(t)[i].dc, SpiWrites(t)[i].val >>]

IsPrefix(s, t) == Len(s) <= Len(t) /\ s = SubSeq(t, 1, Len(s))

\* The first n elements of s, or all of s when it has fewer.
Take(s, n) == SubSeq(s, 1, IF Len(s) < n THEN Len(s) ELSE n)

\* The rectangle lies inside the panel geometry.
InPanel(a) ==
    /\ 0 <= a.x1 /\ a.x1 <= a.x2 /\ a.x2 < LCD_WIDTH
    /\ 0 <= a.y1 /\ a.y1 <= a.y2 /\ a.y2 < LCD_HEIGHT

FlushReturned == entry = "lcd_flush" /\ ~active
InitReturned == entry = "lcd_init" /\ ~active

\* ------------------------------------------------------------------- claims
\* The eleven transfers of the window-set protocol for rectangle a, each as
\* <<command/data-select level, byte>>.
WindowSetWire(a) ==
    << << LCD_CMD, \h2A >>,
       << LCD_DATA, a.x1 \div 256 >>, << LCD_DATA, a.x1 % 256 >>,
       << LCD_DATA, a.x2 \div 256 >>, << LCD_DATA, a.x2 % 256 >>,
       << LCD_CMD, \h2B >>,
       << LCD_DATA, a.y1 \div 256 >>, << LCD_DATA, a.y1 % 256 >>,
       << LCD_DATA, a.y2 \div 256 >>, << LCD_DATA, a.y2 % 256 >>,
       << LCD_CMD, \h2C >> >>

\* C1: for every rectangle inside the panel, the transfers of the window-set
\* step of lcd_flush are, in order and with nothing else, command 0x2A, the
\* four column bytes as data, command 0x2B, the four row bytes as data, command
\* 0x2C; each is one byte long, and the step makes no call other than writes of
\* the chip-select and command/data-select lines and transport writes.
C1_WindowSetSequence ==
    (entry = "lcd_flush" /\ InPanel(area)) =>
        /\ IsPrefix(Take(Wire(trace), 11), WindowSetWire(area))
        /\ (~active => Take(Wire(trace), 11) = WindowSetWire(area))
        /\ \A i \in 1..Len(Take(trace, 44)) :
               \/ trace[i].op = "spi_write" /\ trace[i].len = 1
               \/ trace[i].op = "gpio_write" /\ trace[i].pin \in {LCD_CS_PIN, LCD_DC_PIN}

\* The example of the specification: rectangle 0,0,239,9 gives column bytes
\* 00 00 00 EF and row bytes 00 00 00 09.
C1_Witness ==
    /\ FlushReturned
    /\ area = [x1 |-> 0, y1 |-> 0, x2 |-> 239, y2 |-> 9]
    /\ Take(Wire(trace), 11) =
           << <<0, 42>>, <<1, 0>>, <<1, 0>>, <<1, 0>>, <<1, 239>>,
              <<0, 43>>, <<1, 0>>, <<1, 0>>, <<1, 0>>, <<1, 9>>, <<0, 44>> >>


\* The pixel buffer transfers of a trace: the transport writes of color_p.
BufWrites(t) == SelectSeq(t, LAMBDA e : e.op = "spi_write" /\ e.buf = "color_p")

\* width * height * 2 of rectangle a.
BlitBytes(a) == (a.x2 - a.x1 + 1) * (a.y2 - a.y1 + 1) * 2

\* C2: for every valid blit, the full-panel one included, the pixel data burst
\* handed to the transport is exactly width * height * 2 bytes long.
C2_BurstLength ==
    (FlushReturned /\ InPanel(area)) =>
        /\ Len(BufWrites(trace)) = 1
        /\ BufWrites(trace)[1].len = BlitBytes(area)

\* The calls of a trace that touch the bus: line writes and transport writes.
BusActivity(t) == SelectSeq(t, LAMBDA e : e.op \in {"gpio_write", "spi_write"})

\* C3: a blit whose rectangle is not inside the panel is rejected before any
\* bus activity: lcd_flush makes no line write and no transport write for it.
C3_RejectOutOfPanel ==
    (entry = "lcd_flush" /\ ~InPanel(area)) => BusActivity(trace) = << >>


\* The command bytes of a trace: the bytes transferred with the command/data-
\* select line at "command", in order.
Commands(t) ==
    [i \in 1..Len(SelectSeq(t, LAMBDA e : e.op = "spi_write" /\ e.dc = LCD_CMD)) |->
        SelectSeq(t, LAMBDA e : e.op = "spi_write" /\ e.dc = LCD_CMD)[i].val]

InitCommandOrder ==
    << \h01, \h11, \h3A, \h36, \h2A, \h2B, \hB2, \hB7, \hBB, \hC0,
       \hC2, \hC3, \hC4, \hC6, \hD0, \hE0, \hE1, \h13, \h29 >>

\* C4: lcd_init issues the nineteen command bytes SWRESET, SLPOUT, COLMOD,
\* MADCTL, CASET, RASET, PORCTRL, GCTRL, VCOMS, LCMCTRL, VDVVRHEN, VRHS, VDVS,
\* FRCTRL2, PWCTRL1, PVGAMCTRL, NVGAMCTRL, NORON, DISPON in exactly this order,
\* each once and with no other command byte in between.
C4_InitCommandOrder ==
    entry = "lcd_init" =>
        /\ IsPrefix(Commands(trace), InitCommandOrder)
        /\ (~active => Commands(trace) = InitCommandOrder)

\* lcd_init has returned having sent VDVVRHEN (11th) before VRHS and VDVS.
C4_Witness ==
    /\ InitReturned
    /\ Len(Commands(trace)) = 19
    /\ Commands(trace)[11] = ST7789_VDVVRHEN
    /\ Commands(trace)[12] = ST7789_VRHS
    /\ Commands(trace)[13] = ST7789_VDVS

\* Event i of trace t is the transfer of command byte cmd.
IsCommand(t, i, cmd) == t[i].op = "spi_write" /\ t[i].dc = LCD_CMD /\ t[i].val = cmd

\* Event i of trace t is a write of level v to line pin.
IsLineWrite(t, i, pin, v) == t[i].op = "gpio_write" /\ t[i].pin = pin /\ t[i].val = v

\* The call that follows event i of trace t, if any, is a delay of at least ms.
DelayNext(t, i, ms) == i + 1 <= Len(t) => (t[i + 1].op = "delay" /\ t[i + 1].val >= ms)

\* Command cmd, transferred as event i, is followed by the deselect that ends
\* its lcd_write_cmd and then by a delay of at least ms.
DelayAfterCommand(t, i, cmd, ms) ==
    IsCommand(t, i, cmd) =>
        /\ i + 1 <= Len(t) => (IsLineWrite(t, i + 1, LCD_CS_PIN, 1) /\ t[i + 1].fn = "lcd_write_cmd")
        /\ DelayNext(t, i + 1, ms)

\* The delays of a trace, in order.
Delays(t) ==
    [i \in 1..Len(SelectSeq(t, LAMBDA e : e.op = "delay")) |->
        SelectSeq(t, LAMBDA e : e.op = "delay")[i].val]

\* C5: in lcd_init each mandatory delay is requested right after the event that
\* triggers it, before any other line write or transfer: at least 10 ms between
\* reset low and reset high, 120 ms after reset high, 150 ms after SWRESET,
\* 10 ms after SLPOUT, 10 ms after NORON and 100 ms after DISPON.
C5_InitDelays ==
    entry = "lcd_init" =>
        /\ \A i \in 1..Len(trace) :
              /\ IsLineWrite(trace, i, LCD_RST_PIN, 0) =>
                    /\ DelayNext(trace, i, 10)
                    /\ i + 2 <= Len(trace) => IsLineWrite(trace, i + 2, LCD_RST_PIN, 1)
              /\ IsLineWrite(trace, i, LCD_RST_PIN, 1) => DelayNext(trace, i, 120)
              /\ DelayAfterCommand(trace, i, ST7789_SWRESET, 150)
              /\ DelayAfterCommand(trace, i, ST7789_SLPOUT, 10)
              /\ DelayAfterCommand(trace, i, ST7789_NORON, 10)
              /\ DelayAfterCommand(trace, i, ST7789_DISPON, 100)
        /\ (~active =>
              /\ Len(Delays(trace)) = 6
              /\ Delays(trace)[1] >= 10 /\ Delays(trace)[2] >= 120
              /\ Delays(trace)[3] >= 150 /\ Delays(trace)[4] >= 10
              /\ Delays(trace)[5] >= 10 /\ Delays(trace)[6] >= 100
              /\ trace[Len(trace)].op = "delay")

\* lcd_init has returned, having made all six delays, the last one after DISPON.
C5_Witness ==
    /\ InitReturned
    /\ Delays(trace) = << 10, 120, 150, 10, 10, 100 >>
    /\ IsCommand(trace, Len(trace) - 2, ST7789_DISPON)

FramerFns == {"lcd_write_cmd", "lcd_write_data", "lcd_write_data_buf"}

\* A Bus Framer operation has started and not returned.
InFramer == AtStmt /\ Stmt.fn \in FramerFns /\ Stmt.k > 1

\* Some Bus Framer operation has run in this program: in the current call, or
\* in lcd_init, which returns before lcd_flush is registered.
FramerHasRun ==
    \/ entry = "lcd_flush"
    \/ \E i \in 1..Len(trace) : trace[i].fn \in FramerFns

\* C6: chip-select is never left asserted across calls: outside the span of a
\* Bus Framer operation (at every boundary between them and on return from
\* lcd_init and lcd_flush), chip-select is deasserted, whether or not the
\* transport write succeeded; and each assertion of chip-select spans exactly
\* one transport write, after which it is deasserted.
C6_ChipSelectIdle ==
    /\ (FramerHasRun /\ ~InFramer) => lines[LCD_CS_PIN] = 1
    /\ \A i \in 1..Len(trace) :
          IsLineWrite(trace, i, LCD_CS_PIN, 0) =>
              /\ i + 1 <= Len(trace) => trace[i + 1].op = "spi_write"
              /\ i + 2 <= Len(trace) => IsLineWrite(trace, i + 2, LCD_CS_PIN, 1)

\* lcd_flush has returned after a transport write of its window-set step
\* failed, with chip-select deasserted.
C6_Witness ==
    /\ FlushReturned
    /\ failed # 0 /\ failed < Len(trace) - 5
    /\ lines[LCD_CS_PIN] = 1

\* The positions of the buffer-release notification in a trace.
ReadyAt(t) == {i \in 1..Len(t) : t[i].op = "flush_ready"}

\* C7: each lcd_flush call makes the buffer-release notification exactly once,
\* before it returns, and only after the pixel burst has been handed to the
\* transport and chip-select has been deasserted: the notification is the last
\* call of lcd_flush, and the two calls before it are the transport write of
\* the pixel buffer and the deselect.
C7_ReleaseAfterBurst ==
    entry = "lcd_flush" =>
        /\ \A i \in ReadyAt(trace) :
              /\ i = Len(trace) /\ code = << >>
              /\ i >= 3
              /\ trace[i - 2].op = "spi_write" /\ trace[i - 2].buf = "color_p"
              /\ IsLineWrite(trace, i - 1, LCD_CS_PIN, 1)
              /\ lines[LCD_CS_PIN] = 1
              /\ Len(BufWrites(trace)) = 1
        /\ (~active => Cardinality(ReadyAt(trace)) = 1)

\* lcd_flush has returned, the notification made once, after the burst.
C7_Witness ==
    /\ FlushReturned
    /\ ReadyAt(trace) = {Len(trace)}
    /\ trace[Len(trace) - 2].buf = "color_p"

\* The outcome a caller sees for a call in which the transport worked.
SuccessOutcome == "void"

\* C8: when a transport write fails during lcd_init or lcd_flush, the call
\* reports to its caller an outcome distinguishable from success.
C8_FailureSurfaced ==
    (~active /\ entry # "none" /\ failed # 0) => ret # SuccessOutcome

\* C9: once a transport write fails inside lcd_init or lcd_flush, that call
\* issues no further transport write.
C9_FailureFatal ==
    failed # 0 => \A i \in 1..Len(trace) : i > failed => trace[i].op # "spi_write"

\* The chip-select assertions of a trace.
Selects(t) == SelectSeq(t, LAMBDA e : e.op = "gpio_write" /\ e.pin = LCD_CS_PIN /\ e.val = 0)

\* C10: every lcd_flush call is exactly one window-set exchange followed by
\* exactly one bulk data transfer: twelve transport writes in twelve chip-select
\* assertions, the first eleven one byte each with the eleventh the memory-write
\* command 0x2C, the twelfth the pixel buffer, sent as data in one transport
\* write, and no transfer before, between or after them.
C10_OneWindowOneBurst ==
    entry = "lcd_flush" =>
        /\ Len(SpiWrites(trace)) <= 12
        /\ Len(Selects(trace)) <= 12
        /\ \A i \in 1..Len(SpiWrites(trace)) :
              /\ SpiWrites(trace)[i].cs = 0
              /\ i <= 11 => (SpiWrites(trace)[i].len = 1 /\ SpiWrites(trace)[i].buf # "color_p")
              /\ i = 11 => Wire(trace)[i] = << LCD_CMD, ST7789_RAMWR >>
              /\ i = 12 => (SpiWrites(trace)[i].buf = "color_p" /\ SpiWrites(trace)[i].dc = LCD_DATA)
        /\ (~active => (Len(SpiWrites(trace)) = 12 /\ Len(Selects(trace)) = 12))

\* lcd_flush has returned from a blit of ten full rows: twelve transfers, the
\* last one the pixel buffer of 4800 bytes.
C10_Witness ==
    /\ FlushReturned
    /\ area = [x1 |-> 0, y1 |-> 0, x2 |-> 239, y2 |-> 9]
    /\ Len(SpiWrites(trace)) = 12
    /\ SpiWrites(trace)[12].buf = "color_p" /\ SpiWrites(trace)[12].len = 4800


\* C11: a lcd_flush call with the same area and the same buffer contents as the
\* lcd_flush call before it makes the same calls in the same order, with the
\* same line levels, bytes, lengths and buffer contents, whatever blits came
\* earlier and however many: its trace grows along the trace of the call
\* before and equals it on return.
C11_FlushIdempotent ==
    (entry = "lcd_flush" /\ prev # << >>) =>
        /\ IsPrefix(trace, prev)
        /\ (~active => trace = prev)

\* The second of two lcd_flush calls on the area 5,9,239,319 with the
\* alternating pattern in the buffer has returned.
C11_Witness ==
    /\ FlushReturned
    /\ prev # << >>
    /\ trace = prev
    /\ area = [x1 |-> 5, y1 |-> 9, x2 |-> 239, y2 |-> 319]
    /\ color_p = << \hF800, 0 >>

\* The length in bytes of the buffer lcd_flush is handed: the application's
\* draw buffer of DISP_BUF_SIZE lv_color_t of two bytes each.
BufferBytes == DISP_BUF_SIZE * 2

\* C12: a blit whose pixel buffer is not width * height * 2 bytes long is
\* rejected with zero bus transfers: lcd_flush makes no line write and no
\* transport write for it.
C12_RejectWrongLength ==
    (entry = "lcd_flush" /\ BufferBytes # BlitBytes(area)) => BusActivity(trace) = << >>

\* Every pin in Pins has been configured as an output, and the transport
\* initialised, among the first n calls of trace t.
HwReadyWithin(t, n) ==
    /\ \A pin \in Pins :
          \E j \in 1..n : t[j].op = "gpio_config" /\ t[j].pin = pin /\ t[j].val = TUYA_GPIO_OUTPUT
    /\ \E j \in 1..n : t[j].op = "spi_init"

\* C13: in lcd_init every line write and every transport write comes after
\* the tuya_gpio_config of all four control lines as outputs and after
\* tuya_spi_init.
C13_ConfigBeforeBus ==
    entry = "lcd_init" =>
        /\ \A i \in 1..Len(trace) :
              trace[i].op \in {"gpio_write", "spi_write"} =>
                  /\ HwReadyWithin(trace, i - 1)
                  /\ i > 5
        /\ (AtStmt /\ Stmt.op \in {"gpio_write", "spi_write"}) =>
              (outputs = Pins /\ spi_up)

\* lcd_init is about to make its first line write, reset low, having
\* configured the four lines and initialised the transport in its five calls
\* so far.
C13_Witness ==
    /\ entry = "lcd_init" /\ AtStmt
    /\ Stmt = [fn |-> "lcd_init", k |-> 1] @@ tuya_gpio_write(LCD_RST_PIN, 0)
    /\ Len(trace) = 5
    /\ HwReadyWithin(trace, 5)
    /\ outputs = Pins /\ spi_up

\* The command/data-select level a Bus Framer operation is to use: "command"
\* for lcd_write_cmd, "data" for lcd_write_data and lcd_write_data_buf.
FramerSelect(fn) == IF fn = "lcd_write_cmd" THEN 0 ELSE 1

\* Call i of trace t is call k of the Bus Framer operation that made call i - 1
\* as its call k - 1.
FramerStep(t, i, k) == i > 1 /\ t[i - 1].fn = t[i].fn /\ t[i - 1].k = k - 1 /\ t[i].k = k

\* C14: every Bus Framer operation makes exactly these calls in this order:
\* write command/data-select (0 in lcd_write_cmd, 1 in lcd_write_data and
\* lcd_write_data_buf), write chip-select 0, one transport write, write
\* chip-select 1.  So every transport write is made by a Bus Framer operation
\* with chip-select at 0 and command/data-select at the level just written,
\* no write of command/data-select falls between a chip-select 0 and the
\* chip-select 1 after it, and lcd_write_cmd and lcd_write_data transfer one
\* byte per chip-select assertion.
C14_FramerOrder ==
    \A i \in 1..Len(trace) :
        /\ trace[i].fn \in FramerFns =>
              /\ trace[i].k \in 1..4
              /\ trace[i].k = 1 => IsLineWrite(trace, i, LCD_DC_PIN, FramerSelect(trace[i].fn))
              /\ trace[i].k = 2 => (IsLineWrite(trace, i, LCD_CS_PIN, 0) /\ FramerStep(trace, i, 2))
              /\ trace[i].k = 3 =>
                    /\ trace[i].op = "spi_write" /\ FramerStep(trace, i, 3)
                    /\ trace[i].fn \in {"lcd_write_cmd", "lcd_write_data"} => trace[i].len = 1
              /\ trace[i].k = 4 => (IsLineWrite(trace, i, LCD_CS_PIN, 1) /\ FramerStep(trace, i, 4))
        /\ trace[i].op = "spi_write" =>
              /\ trace[i].fn \in FramerFns
              /\ trace[i].cs = 0 /\ trace[i].dc = FramerSelect(trace[i].fn)
              /\ i > 2
              /\ IsLineWrite(trace, i - 1, LCD_CS_PIN, 0)
              /\ IsLineWrite(trace, i - 2, LCD_DC_PIN, trace[i].dc)
              /\ i + 1 <= Len(trace) => IsLineWrite(trace, i + 1, LCD_CS_PIN, 1)
        /\ IsLineWrite(trace, i, LCD_CS_PIN, 0) =>
              /\ i + 1 <= Len(trace) => trace[i + 1].op = "spi_write"
              /\ i + 2 <= Len(trace) => IsLineWrite(trace, i + 2, LCD_CS_PIN, 1)

\* lcd_flush has returned from a blit of ten full rows in which all three Bus
\* Framer operations ran: lcd_write_cmd sent 0x2A as a command, lcd_write_data
\* an address byte as data, lcd_write_data_buf the 4800 pixel bytes as data,
\* each with chip-select at 0.
C14_Witness ==
    /\ FlushReturned
    /\ Len(trace) = 49
    /\ trace[3].fn = "lcd_write_cmd" /\ trace[3].dc = 0 /\ trace[3].cs = 0 /\ trace[3].val = \h2A
    /\ trace[7].fn = "lcd_write_data" /\ trace[7].dc = 1 /\ trace[7].cs = 0 /\ trace[7].len = 1
    /\ trace[47].fn = "lcd_write_data_buf" /\ trace[47].dc = 1 /\ trace[47].cs = 0
    /\ trace[47].len = 4800

\* C15: in lcd_init the first three line writes or transport writes are reset
\* low, reset high, backlight high, in this order; the first transport write
\* comes after them and is the command SWRESET; and after the reset pulse no
\* write drives the reset line low again.
C15_ResetBacklightFirst ==
    entry = "lcd_init" =>
        LET B == BusActivity(trace) IN
            /\ Len(B) >= 1 => IsLineWrite(B, 1, LCD_RST_PIN, 0)
            /\ Len(B) >= 2 => IsLineWrite(B, 2, LCD_RST_PIN, 1)
            /\ Len(B) >= 3 => IsLineWrite(B, 3, LCD_BL_PIN, 1)
            /\ SpiWrites(trace) # << >> =>
                  /\ SpiWrites(trace)[1].dc = LCD_CMD
                  /\ SpiWrites(trace)[1].val = ST7789_SWRESET
                  /\ lines[LCD_BL_PIN] = 1
            /\ \A i \in 2..Len(B) : ~IsLineWrite(B, i, LCD_RST_PIN, 0)
            /\ Len(B) >= 2 => lines[LCD_RST_PIN] = 1

\* lcd_init has just transferred SWRESET, its first transfer, with the reset
\* pulse made and the backlight on.
C15_Witness ==
    /\ entry = "lcd_init" /\ active
    /\ Len(SpiWrites(trace)) = 1
    /\ IsCommand(trace, Len(trace), ST7789_SWRESET)
    /\ Len(BusActivity(trace)) = 6
    /\ lines[LCD_RST_PIN] = 1 /\ lines[LCD_BL_PIN] = 1

\* The number of parameter bytes the specification gives each command of the
\* initialization sequence.
ParamBytes(cmd) ==
    CASE cmd \in {ST7789_SWRESET, ST7789_SLPOUT, ST7789_NORON, ST7789_DISPON} -> 0
      [] cmd \in {ST7789_COLMOD, ST7789_MADCTL, ST7789_GCTRL, ST7789_VCOMS, ST7789_LCMCTRL,
                  ST7789_VDVVRHEN, ST7789_VRHS, ST7789_VDVS, ST7789_FRCTRL2} -> 1
      [] cmd = ST7789_PWCTRL1 -> 2
      [] cmd \in {ST7789_CASET, ST7789_RASET} -> 4
      [] cmd = ST7789_PORCTRL -> 5
      [] cmd \in {ST7789_PVGAMCTRL, ST7789_NVGAMCTRL} -> 14
      [] OTHER -> -1

\* The positions of the command bytes in wire w.
CommandAt(w) == {i \in 1..Len(w) : w[i][1] = LCD_CMD}

\* The n transfers after position i of wire w are, as far as w goes, data
\* bytes, and the one after them is a command byte.
ParamCountIs(w, i, n) ==
    /\ \A m \in 1..n : i + m <= Len(w) => w[i + m][1] = LCD_DATA
    /\ i + n + 1 <= Len(w) => w[i + n + 1][1] = LCD_CMD

\* The initialization sequence as the specification lists it: each command
\* byte with its parameter bytes.
InitFrames ==
    << << \h01 >>, << \h11 >>, << \h3A, \h55 >>, << \h36, \h00 >>,
       << \h2A, \h00, \h00, \h00, \hEF >>, << \h2B, \h00, \h00, \h01, \h3F >>,
       << \hB2, \h0C, \h0C, \h00, \h33, \h33 >>, << \hB7, \h35 >>, << \hBB, \h19 >>,
       << \hC0, \h2C >>, << \hC2, \h01 >>, << \hC3, \h12 >>, << \hC4, \h20 >>,
       << \hC6, \h0F >>, << \hD0, \hA4, \hA1 >>,
       << \hE0, \hD0, \h04, \h0D, \h11, \h13, \h2B, \h3F,
                \h54, \h4C, \h18, \h0D, \h0B, \h1F, \h23 >>,
       << \hE1, \hD0, \h04, \h0C, \h11, \h13, \h2C, \h3F,
                \h44, \h51, \h2F, \h1F, \h1F, \h20, \h23 >>,
       << \h13 >>, << \h29 >> >>

\* Frame f on the wire: its first byte as a command, the others as data.
FrameWire(f) == [i \in 1..Len(f) |-> << IF i = 1 THEN LCD_CMD ELSE LCD_DATA, f[i] >>]

RECURSIVE FramesWire(_)
FramesWire(fs) == IF fs = << >> THEN << >> ELSE FrameWire(Head(fs)) \o FramesWire(Tail(fs))

\* C16: in lcd_init each command byte is followed, before the next command
\* byte, by exactly its number of parameter bytes sent as data (COLMOD 1,
\* MADCTL 1, CASET 4, RASET 4, PORCTRL 5, GCTRL 1, VCOMS 1, LCMCTRL 1,
\* VDVVRHEN 1, VRHS 1, VDVS 1, FRCTRL2 1, PWCTRL1 2, PVGAMCTRL 14, NVGAMCTRL
\* 14; none after SWRESET, SLPOUT, NORON, DISPON), 52 data bytes in all; and
\* every run of lcd_init, whatever the line levels it starts from and whichever
\* transport writes fail, makes the same 298 calls and the same 71 transfers.
C16_ParameterCounts ==
    entry = "lcd_init" =>
        LET w == Wire(trace) IN
            /\ \A i \in CommandAt(w) :
                  /\ ParamBytes(w[i][2]) >= 0
                  /\ ParamCountIs(w, i, ParamBytes(w[i][2]))
                  /\ ~active => i + ParamBytes(w[i][2]) <= Len(w)
            /\ ~active =>
                  /\ Cardinality(CommandAt(w)) = 19
                  /\ Len(w) - Cardinality(CommandAt(w)) = 52
                  /\ w = FramesWire(InitFrames)
                  /\ Len(trace) = 298

\* lcd_init has returned after a run in which a transport write failed: 19
\* commands, the 16th (PVGAMCTRL, 40th transfer) followed by 14 data bytes and
\* then by the 17th (NVGAMCTRL).
C16_Witness ==
    /\ InitReturned
    /\ failed # 0
    /\ Len(Wire(trace)) = 71
    /\ Wire(trace)[40] = << LCD_CMD, ST7789_PVGAMCTRL >>
    /\ \A m \in 41..54 : Wire(trace)[m][1] = LCD_DATA
    /\ Wire(trace)[55] = << LCD_CMD, ST7789_NVGAMCTRL >>

\* The two bytes of a 16-bit value, most significant first.
BigEndian16(v) == << v \div 256, v % 256 >>

\* The bytes lcd_set_address_window transfers for the whole panel, in order
\* (command bytes included).
FullPanelWindowBytes ==
    LET c == SelectSeq(lcd_set_address_window(0, 0, LCD_WIDTH - 1, LCD_HEIGHT - 1),
                       LAMBDA e : e.op = "spi_write")
    IN [i \in 1..Len(c) |-> c[i].val]

\* The transfers after position i of wire w are, as far as w goes, the data
\* bytes ps followed by a command byte.
ParamsAre(w, i, ps) ==
    /\ \A m \in 1..Len(ps) : i + m <= Len(w) => w[i + m] = << LCD_DATA, ps[m] >>
    /\ i + Len(ps) + 1 <= Len(w) => w[i + Len(ps) + 1][1] = LCD_CMD

\* C17: the parameters lcd_init sends after CASET are the big-endian encodings
\* of 0 and LCD_WIDTH - 1, i.e. 00 00 00 EF, and those after RASET the
\* big-endian encodings of 0 and LCD_HEIGHT - 1, i.e. 00 00 01 3F: the bytes
\* lcd_set_address_window(0, 0, LCD_WIDTH - 1, LCD_HEIGHT - 1) sends after
\* these two commands.
C17_InitWindowFullPanel ==
    entry = "lcd_init" =>
        LET w == Wire(trace) IN
            /\ \A i \in 1..Len(w) :
                  /\ w[i] = << LCD_CMD, ST7789_CASET >> =>
                        /\ ParamsAre(w, i, BigEndian16(0) \o BigEndian16(LCD_WIDTH - 1))
                        /\ ParamsAre(w, i, << \h00, \h00, \h00, \hEF >>)
                        /\ ParamsAre(w, i, SubSeq(FullPanelWindowBytes, 2, 5))
                  /\ w[i] = << LCD_CMD, ST7789_RASET >> =>
                        /\ ParamsAre(w, i, BigEndian16(0) \o BigEndian16(LCD_HEIGHT - 1))
                        /\ ParamsAre(w, i, << \h00, \h00, \h01, \h3F >>)
                        /\ ParamsAre(w, i, SubSeq(FullPanelWindowBytes, 7, 10))
            /\ ~active =>
                  /\ \E i \in 1..Len(w) : w[i] = << LCD_CMD, ST7789_CASET >>
                  /\ \E i \in 1..Len(w) : w[i] = << LCD_CMD, ST7789_RASET >>
            /\ FullPanelWindowBytes[1] = ST7789_CASET
            /\ FullPanelWindowBytes[6] = ST7789_RASET

\* lcd_init has just sent the last row-address default: the wire so far ends
\* with CASET 00 00 00 EF, RASET 00 00 01 3F.
C17_Witness ==
    /\ entry = "lcd_init" /\ active
    /\ Len(Wire(trace)) = 16
    /\ SubSeq(Wire(trace), 7, 16) =
           << << 0, \h2A >>, << 1, 0 >>, << 1, 0 >>, << 1, 0 >>, << 1, \hEF >>,
              << 0, \h2B >>, << 1, 0 >>, << 1, 0 >>, << 1, 1 >>, << 1, \h3F >> >>

\* lcd_init has returned after its last statement: the last three calls of its
\* trace are the transfer of DISPON, the deselect, and a delay of at least
\* 100 ms.
InitTerminal ==
    /\ InitReturned /\ code = << >>
    /\ Len(trace) >= 3
    /\ IsCommand(trace, Len(trace) - 2, ST7789_DISPON)
    /\ trace[Len(trace)].op = "delay" /\ trace[Len(trace)].val >= 100

\* C18: tuya_app_main calls lcd_init exactly once, as its first step; the
\* flush callback is registered only when that call has returned with DISPON
\* sent and its delay made; a lcd_flush call begins only with the callback
\* registered, hence after lcd_init has finished; and lcd_init is never called
\* again.
C18_InitOnceBeforeFlush ==
    [][ /\ ninit' <= 1
        /\ ninit' # ninit => (ninit = 0 /\ flush_cb = "NULL" /\ entry = "none")
        /\ flush_cb' # flush_cb => (InitTerminal /\ ninit = 1 /\ flush_cb' = "lcd_flush")
        /\ (entry' = "lcd_flush" /\ active' /\ ~active) =>
              (flush_cb = "lcd_flush" /\ ninit = 1 /\ pc = "loop")
      ]_vars

\* A second lcd_flush call is in progress, after one call of lcd_init.
C18_Witness ==
    /\ entry = "lcd_flush" /\ active
    /\ prev # << >>
    /\ ninit = 1
    /\ flush_cb = "lcd_flush"

\* C19: lcd_flush hands the transport the caller's buffer itself, from its
\* first byte, in one transfer that finds in it the contents it had when
\* lcd_flush was called; and the buffer's contents during the call and after
\* it returns are the ones it had at the call.
C19_BufferSentUnmodified ==
    entry = "lcd_flush" =>
        /\ buf = color_p
        /\ \A i \in 1..Len(trace) :
              (trace[i].op = "spi_write" /\ trace[i].fn = "lcd_write_data_buf") =>
                  /\ trace[i].buf = "color_p"
                  /\ trace[i].mem = color_p
        /\ (~active => Len(BufWrites(trace)) = 1)

\* lcd_flush has returned from a blit of the alternating pattern: the transfer
\* found the pattern in the buffer and the buffer still holds it.
C19_Witness ==
    /\ FlushReturned
    /\ color_p = << \hF800, 0 >>
    /\ Len(BufWrites(trace)) = 1
    /\ BufWrites(trace)[1].mem = << \hF800, 0 >>
    /\ buf = << \hF800, 0 >>

\* Rectangle a holds at least one and at most DISP_BUF_SIZE pixels.
FitsDrawBuffer(a) ==
    /\ a.x1 <= a.x2 /\ a.y1 <= a.y2
    /\ (a.x2 - a.x1 + 1) * (a.y2 - a.y1 + 1) <= DISP_BUF_SIZE

\* C20: for every flush of a rectangle of at most DISP_BUF_SIZE = 2400 pixels,
\* the length lcd_flush computes, pixels * 2, is at most 4800 and survives the
\* conversion to the 16-bit length parameter: the length handed to the
\* transport is pixels * 2 and is no more than the length of the draw buffer.
C20_LengthFitsDrawBuffer ==
    (entry = "lcd_flush" /\ FitsDrawBuffer(area)) =>
        /\ U32Times2(flush_size(area)) = [hi |-> 0, lo |-> BlitBytes(area)]
        /\ BlitBytes(area) <= 4800
        /\ \A i \in 1..Len(BufWrites(trace)) :
              /\ BufWrites(trace)[i].len = BlitBytes(area)
              /\ BufWrites(trace)[i].len <= BufferBytes
        /\ (~active => Len(BufWrites(trace)) = 1)

\* lcd_flush has returned from a blit that fills the draw buffer: 240 x 10
\* pixels, 4800 bytes handed to the transport.
C20_Witness ==
    /\ FlushReturned
    /\ FitsDrawBuffer(area)
    /\ (area.x2 - area.x1 + 1) * (area.y2 - area.y1 + 1) = DISP_BUF_SIZE
    /\ BufWrites(trace)[1].len = BufferBytes

\* lcd_init has been called and has returned.
InitCompleted == ninit >= 1 /\ ~(entry = "lcd_init" /\ active)

\* C21: a call made outside the body of lcd_init (by lcd_flush or by a Bus
\* Framer operation) is never a write of the reset or backlight line, a pin
\* configuration or a transport initialisation: its line writes go to
\* chip-select and command/data-select only.  So once lcd_init has returned,
\* through any sequence of blits the reset line stays high, the backlight
\* stays on, the four lines stay configured as outputs and the transport
\* stays initialised, and the calls of a blit are line writes of chip-select
\* and command/data-select, transport writes and the release notification.
C21_ResetBacklightUntouched ==
    /\ \A i \in 1..Len(trace) :
          /\ trace[i].fn # "lcd_init" =>
                /\ trace[i].op \notin {"gpio_config", "spi_init"}
                /\ trace[i].op = "gpio_write" => trace[i].pin \in {LCD_CS_PIN, LCD_DC_PIN}
          /\ entry = "lcd_flush" =>
                /\ trace[i].fn \in FramerFns \cup {"lcd_flush"}
                /\ trace[i].op \in {"gpio_write", "spi_write", "flush_ready"}
    /\ (AtStmt /\ entry = "lcd_flush") =>
          /\ Stmt.op \notin {"gpio_config", "spi_init"}
          /\ Stmt.op = "gpio_write" => Stmt.pin \in {LCD_CS_PIN, LCD_DC_PIN}
    /\ InitCompleted =>
          /\ lines[LCD_RST_PIN] = 1
          /\ lines[LCD_BL_PIN] = 1
          /\ outputs = Pins
          /\ spi_up

\* The second of two blits of the full panel has returned, having made its
\* 36 line writes, with reset still high and the backlight still on.
C21_Witness ==
    /\ FlushReturned
    /\ prev # << >>
    /\ area = [x1 |-> 0, y1 |-> 0, x2 |-> 239, y2 |-> 319]
    /\ Len(SelectSeq(trace, LAMBDA e : e.op = "gpio_write")) = 36
    /\ lines[LCD_RST_PIN] = 1 /\ lines[LCD_BL_PIN] = 1
====
